---- MODULE Spec2Model ----
(***************************************************************************)
(* Model of the conversation parser and analyzer of claude-code-data:      *)
(*   src/src/parser/conversation-parser.ts  (readConversationLines,        *)
(*     parseConversation, parseAndValidateConversation,                    *)
(*     buildConversationTree, getActiveBranch,                             *)
(*     calculateConversationStats)                                         *)
(*   src/unnamed/part_002                   (the type guards)              *)
(*                                                                         *)
(* A file is a sequence of lines.  A line is blank, malformed (not JSON),  *)
(* or the JSON text of a value.  A JSON value is a record                  *)
(*   [tag |-> "object" | "array" | "number" | "null", props |-> fields]    *)
(* where props is the record of the object's own properties (empty for     *)
(* the other tags).  JavaScript null is the value Null below; uuids are    *)
(* strings, the empty string included.                                     *)
(***************************************************************************)
EXTENDS Integers, Sequences, FiniteSets, TLC

\* ------------------------------------------------------------------ bounds
\* Longest file of the line-decoding specification (Spec).
MaxLines == 3
\* Most message lines of a file of the message-graph specification (SpecGraph).
MaxMsgs == 3
\* Longest file of the statistics specification (SpecStats).
MaxStatLines == 3
\* Longest file of the fork-point specification (SpecBranches).
MaxBranchMsgs == 4

\* ------------------------------------------------------------------ values
\* JavaScript null (parentUuid: string | null).  No uuid string equals it.
Null == "<null>"

\* The uuid strings of the model; "" is the falsy string.
Uuids == {"", "a", "b"}

NoProps == [k \in {} |-> Null]

\* JSON values
JNumber == [tag |-> "number", props |-> NoProps]
JNull == [tag |-> "null", props |-> NoProps]
JArray == [tag |-> "array", props |-> NoProps]
JObject(p) == [tag |-> "object", props |-> p]

SummaryEntry(leaf) == JObject([type |-> "summary", leafUuid |-> leaf])
MessageEntry(t, u, p) == JObject([type |-> t, uuid |-> u, parentUuid |-> p])
\* {"type":"system","uuid":"a"}: an object of another type
OtherEntry == JObject([type |-> "system", uuid |-> "a"])
\* {"type":"user"}: a user record without uuid
NoUuidEntry == JObject([type |-> "user"])
\* {}: an object without type
EmptyEntry == JObject(NoProps)

\* Lines of text
BlankLine == [text |-> "blank"]
MalformedLine == [text |-> "malformed"]
JSONstringify(v) == [text |-> "json", value |-> v]

\* line.trim(): the empty string exactly for a blank line
trim(line) == IF line.text = "blank" THEN "" ELSE "nonblank"

SyntaxError == [tag |-> "SyntaxError", props |-> NoProps]
\* JSON.parse(line): the value a JSON text denotes, a SyntaxError otherwise
JSONparse(line) == IF line.text = "json" THEN line.value ELSE SyntaxError

\* typeof entry
typeof(entry) ==
  IF entry.tag \in {"object", "array", "null"} THEN "object" ELSE entry.tag

\* "key" in entry, for an entry the operator accepts (an object or an array)
HasProp(entry, key) == key \in DOMAIN entry.props

\* entry.key, undefined (never equal to a string) when absent
PropIs(entry, key, val) == HasProp(entry, key) /\ entry.props[key] = val

\* ------------------------------------------------------------- type guards
isSummaryMessage(entry) ==
  /\ typeof(entry) = "object"
  /\ entry.tag # "null"
  /\ HasProp(entry, "type")
  /\ PropIs(entry, "type", "summary")

\* `"uuid" in entry` throws a TypeError when entry is a primitive or null:
\* isConversationMessage has no typeof guard in front of it.
isConversationMessageThrows(entry) == entry.tag \notin {"object", "array"}

\* The value of isConversationMessage(entry) when it does not throw.
isConversationMessage(entry) ==
  /\ HasProp(entry, "uuid")
  /\ (PropIs(entry, "type", "user") \/ PropIs(entry, "type", "assistant"))

\* -------------------------------------------------------------- the errors
\* The line number counted from 0.
FailedToParseZeroBased(n) == <<"Failed to parse line", n - 1>>

\* new Error(`Failed to parse line ${lineNumber}: ...`)
FailedToParse(n) == <<"Failed to parse line", n>>
TypeError == <<"TypeError">>
NoError == <<"none">>

\* error.message.includes("Failed to parse line")
IsDecodeError(e) == e[1] = "Failed to parse line"
\* parseInt(error.message.match(/line (\d+)/)[1], 10)
MatchLine(e) == e[2]

UnknownEntryError(n, entry) ==
  [line |-> n, error |-> <<"Unknown entry type">>, content |-> JSONstringify(entry)]
DecodeParseError(e) ==
  [line |-> MatchLine(e), error |-> e, content |-> ""]

\* ------------------------------------------------------------ the validator
uuid(message) == message.props.uuid
parentUuid(message) == message.props.parentUuid
leafUuid(summary) == summary.props.leafUuid

\* JavaScript truthiness of a value of type string | null
Truthy(v) == v # Null /\ v # ""

DuplicateError(index, nSummaries, u) ==
  [line |-> index + nSummaries + 1, error |-> <<"Duplicate UUID", u>>, content |-> ""]
OrphanError(index, nSummaries, p) ==
  [line |-> index + nSummaries + 1, error |-> <<"Orphaned message", p>>, content |-> ""]

\* The first forEach with messageIds.add(message.uuid) moved before the check.
RECURSIVE FirstPassAddFirst(_, _, _, _)
FirstPassAddFirst(msgs, nSummaries, i, messageIds) ==
  IF i > Len(msgs) THEN <<>>
  ELSE <<DuplicateError(i - 1, nSummaries, uuid(msgs[i]))>>
       \o FirstPassAddFirst(msgs, nSummaries, i + 1, messageIds)

\* The first forEach, from the message at 1-based position i on: messageIds
\* holds the uuids of the messages before i.  Returns the errors pushed.
RECURSIVE FirstPass(_, _, _, _)
FirstPass(msgs, nSummaries, i, messageIds) ==
  IF i > Len(msgs) THEN <<>>
  ELSE (IF uuid(msgs[i]) \in messageIds
          THEN <<DuplicateError(i - 1, nSummaries, uuid(msgs[i]))>>
          ELSE <<>>)
       \o FirstPass(msgs, nSummaries, i + 1, messageIds \cup {uuid(msgs[i])})

\* messageIds after the first forEach
AllMessageIds(msgs) == {uuid(msgs[i]) : i \in 1..Len(msgs)}

\* The condition of the second forEach
IsReportedOrphan(message, messageIds) ==
  /\ Truthy(parentUuid(message))
  /\ parentUuid(message) # Null
  /\ parentUuid(message) \notin messageIds

\* The second forEach, from the message at 1-based position i on.
RECURSIVE SecondPass(_, _, _, _)
SecondPass(msgs, nSummaries, i, messageIds) ==
  IF i > Len(msgs) THEN <<>>
  ELSE (IF IsReportedOrphan(msgs[i], messageIds)
          THEN <<OrphanError(i - 1, nSummaries, parentUuid(msgs[i]))>>
          ELSE <<>>)
       \o SecondPass(msgs, nSummaries, i + 1, messageIds)

\* The errors of the second forEach pushed before those of the first.
validationErrorsOrphansFirst(sums, msgs) ==
  SecondPass(msgs, Len(sums), 1, AllMessageIds(msgs))
  \o FirstPass(msgs, Len(sums), 1, {})

validationErrors(sums, msgs) ==
  FirstPass(msgs, Len(sums), 1, {})
  \o SecondPass(msgs, Len(sums), 1, AllMessageIds(msgs))

\* --------------------------------------------------------- the tree builder
\* Outcomes of the two analysis functions.  A message is referred to by its
\* 1-based position in messages (the object the list holds there).
NotCalled == [status |-> "not called", value |-> <<>>]
Returned(v) == [status |-> "returned", value |-> v]
\* unbounded recursion: the call stack overflows
RangeError == [status |-> "RangeError", value |-> <<>>]
\* a loop that never ends
Diverges == [status |-> "diverges", value |-> <<>>]

Indexes(msgs) == [i \in 1..Len(msgs) |-> i]

\* childrenMap.set(msg.parentUuid, [msg]): a later sibling replaces the earlier
childrenMapGetOverwrite(msgs, key) ==
  LET all == SelectSeq(Indexes(msgs), LAMBDA i : parentUuid(msgs[i]) = key)
  IN IF Len(all) = 0 THEN <<>> ELSE <<all[Len(all)]>>

\* siblings.unshift(msg): the siblings in reverse input order
childrenMapGetUnshift(msgs, key) ==
  LET all == SelectSeq(Indexes(msgs), LAMBDA i : parentUuid(msgs[i]) = key)
  IN [k \in 1..Len(all) |-> all[Len(all) + 1 - k]]

\* childrenMap.get(key) || []: the messages whose parentUuid is key, in input order
childrenMapGet(msgs, key) ==
  SelectSeq(Indexes(msgs), LAMBDA i : parentUuid(msgs[i]) = key)

\* A frame deeper than the number of messages: some message is being built
\* inside its own buildNode call, so the recursion never ends.
TooDeep == [message |-> 0, children |-> <<>>]

\* buildNode that returns its node without building the children.
buildNodeWithoutChildren(msgs, i, depth) ==
  [message |-> i, children |-> <<>>]

\* buildNode that builds a node for the first child only.
RECURSIVE buildNodeFirstChildOnly(_, _, _)
buildNodeFirstChildOnly(msgs, i, depth) ==
  IF depth > Len(msgs) THEN TooDeep
  ELSE LET children == childrenMapGet(msgs, uuid(msgs[i])) IN
       [message |-> i,
        children |-> [k \in 1..(IF Len(children) = 0 THEN 0 ELSE 1) |->
                        buildNodeFirstChildOnly(msgs, children[k], depth + 1)]]

RECURSIVE buildNode(_, _, _)
buildNode(msgs, i, depth) ==
  IF depth > Len(msgs) THEN TooDeep
  ELSE LET children == childrenMapGet(msgs, uuid(msgs[i])) IN
       [message |-> i,
        children |-> [k \in 1..Len(children) |->
                        buildNode(msgs, children[k], depth + 1)]]

RECURSIVE Overflows(_)
Overflows(node) ==
  \/ node = TooDeep
  \/ \E k \in 1..Len(node.children) : Overflows(node.children[k])

\* buildConversationTree that builds a tree from every message, not only from
\* the messages of childrenMap.get(null)
buildConversationTreeAllRoots(msgs) ==
  LET roots == Indexes(msgs)
      forest == [k \in 1..Len(roots) |-> buildNode(msgs, roots[k], 1)]
  IN IF \E k \in 1..Len(forest) : Overflows(forest[k])
       THEN RangeError
       ELSE Returned(forest)

buildConversationTree(msgs) ==
  LET roots == childrenMapGet(msgs, Null)
      forest == [k \in 1..Len(roots) |-> buildNode(msgs, roots[k], 1)]
  IN IF \E k \in 1..Len(forest) : Overflows(forest[k])
       THEN RangeError
       ELSE Returned(forest)

\* ------------------------------------------------- the active-branch resolver
\* new Map(messages.map((m) => [m.uuid, m])): a later entry replaces an earlier
messageMapHas(msgs, u) == \E i \in 1..Len(msgs) : uuid(msgs[i]) = u
\* A map in which the first entry of a key stays.
messageMapGetFirst(msgs, u) ==
  CHOOSE i \in 1..Len(msgs) :
    /\ uuid(msgs[i]) = u
    /\ \A j \in 1..Len(msgs) : uuid(msgs[j]) = u => i <= j

messageMapGet(msgs, u) ==
  CHOOSE i \in 1..Len(msgs) :
    /\ uuid(msgs[i]) = u
    /\ \A j \in 1..Len(msgs) : uuid(msgs[j]) = u => j <= i

\* The while loop with branch.push(message): the path in leaf-to-root order
RECURSIVE TraceBackPush(_, _, _)
TraceBackPush(msgs, currentUuid, path) ==
  IF currentUuid = Null THEN Returned(path)
  ELSE IF ~messageMapHas(msgs, currentUuid) THEN Returned(path)
  ELSE IF Len(path) > Len(msgs) THEN Diverges
  ELSE LET i == messageMapGet(msgs, currentUuid) IN
       TraceBackPush(msgs, parentUuid(msgs[i]), path \o <<i>>)

\* The while loop giving up the path when a parent is not found
RECURSIVE TraceBackDropsBroken(_, _, _)
TraceBackDropsBroken(msgs, currentUuid, path) ==
  IF currentUuid = Null THEN Returned(path)
  ELSE IF ~messageMapHas(msgs, currentUuid) THEN Returned(<<>>)
  ELSE IF Len(path) > Len(msgs) THEN Diverges
  ELSE LET i == messageMapGet(msgs, currentUuid) IN
       TraceBackDropsBroken(msgs, parentUuid(msgs[i]), <<i>> \o path)

\* The while loop with a stop at a message that the branch already holds.
RECURSIVE TraceBackStopsAtRepeat(_, _, _)
TraceBackStopsAtRepeat(msgs, currentUuid, path) ==
  IF currentUuid = Null THEN Returned(path)
  ELSE IF ~messageMapHas(msgs, currentUuid) THEN Returned(path)
  ELSE LET i == messageMapGet(msgs, currentUuid) IN
       IF \E k \in 1..Len(path) : path[k] = i THEN Returned(path)
       ELSE TraceBackStopsAtRepeat(msgs, parentUuid(msgs[i]), <<i>> \o path)

\* The while loop.  A branch longer than the message list holds a message
\* twice: the loop is in a cycle of parent links and never ends.
RECURSIVE TraceBack(_, _, _)
TraceBack(msgs, currentUuid, path) ==
  IF currentUuid = Null THEN Returned(path)
  ELSE IF ~messageMapHas(msgs, currentUuid) THEN Returned(path)
  ELSE IF Len(path) > Len(msgs) THEN Diverges
  ELSE LET i == messageMapGet(msgs, currentUuid) IN
       TraceBack(msgs, parentUuid(msgs[i]), <<i>> \o path)

\* getActiveBranch with an empty list for a leafUuid that no message has
getActiveBranchEmptyFallback(sums, msgs) ==
  IF Len(sums) = 0 \/ Len(msgs) = 0 THEN Returned(<<>>)
  ELSE IF ~messageMapHas(msgs, leafUuid(sums[1])) THEN Returned(<<>>)
  ELSE TraceBack(msgs, leafUuid(sums[1]), <<>>)

\* getActiveBranch that returns all messages when there is no summary
getActiveBranchAllWithoutSummary(sums, msgs) ==
  IF Len(sums) = 0 THEN Returned(Indexes(msgs))
  ELSE IF Len(msgs) = 0 THEN Returned(<<>>)
  ELSE IF ~messageMapHas(msgs, leafUuid(sums[1])) THEN Returned(Indexes(msgs))
  ELSE TraceBack(msgs, leafUuid(sums[1]), <<>>)

getActiveBranch(sums, msgs) ==
  IF Len(sums) = 0 \/ Len(msgs) = 0 THEN Returned(<<>>)
  ELSE IF ~messageMapHas(msgs, leafUuid(sums[1])) THEN Returned(Indexes(msgs))
  ELSE TraceBack(msgs, leafUuid(sums[1]), <<>>)

\* -------------------------------------------------------------- the analyzer
\* A message of the analyzer's input carries, next to type, uuid and
\* parentUuid, the optional properties timestamp, costUSD, durationMs and
\* message; message is a record with the optional fields content, model and
\* usage.  A content is a plain string or a list of blocks, a block being
\* given by its type; usage is a record of token counts, fields optional.
Text == [isArray |-> FALSE, blocks |-> <<>>]
Blocks(b) == [isArray |-> TRUE, blocks |-> b]

\* The key of a property that is absent (undefined)
Undefined == "<undefined>"

\* JavaScript numbers that may be NaN or infinite: inf is the sign of an
\* infinity and 0 for a finite number of value v.
Num(v) == [nan |-> FALSE, inf |-> 0, v |-> v]
NaN == [nan |-> TRUE, inf |-> 0, v |-> 0]
Infinity(sign) == [nan |-> FALSE, inf |-> sign, v |-> 0]

\* a - b
Minus(a, b) ==
  IF a.nan \/ b.nan THEN NaN
  ELSE IF a.inf = 0 /\ b.inf = 0 THEN Num(a.v - b.v)
  ELSE IF a.inf = b.inf THEN NaN
  ELSE Infinity(IF a.inf # 0 THEN a.inf ELSE 0 - b.inf)

\* a <= b for numbers that are not NaN
LessEq(a, b) ==
  \/ a.inf < b.inf
  \/ a.inf = 0 /\ b.inf = 0 /\ a.v <= b.v
  \/ a.inf # 0 /\ a.inf = b.inf

\* The ISO timestamps of the model and the strings that are no date.
\* new Date(timestamp).getTime(): milliseconds since the epoch, NaN for a
\* string that is no date and for an absent timestamp.
DateGetTime(m) ==
  IF ~HasProp(m, "timestamp") THEN NaN
  ELSE CASE m.props.timestamp = "1970-01-01T00:00:00.000Z" -> Num(0)
         [] m.props.timestamp = "1970-01-01T00:00:01.000Z" -> Num(1000)
         [] m.props.timestamp = "1970-01-01T00:00:02.500Z" -> Num(2500)
         [] OTHER -> NaN

RECURSIVE reduce(_, _, _, _)
\* seq.reduce(f, acc), from element k on
reduce(f(_, _), seq, acc, k) ==
  IF k > Len(seq) THEN acc ELSE reduce(f, seq, f(acc, seq[k]), k + 1)

\* Math.max(...numbers): -Infinity for no argument, NaN if one is NaN
MathMax(numbers) ==
  LET max(acc, x) ==
        IF acc.nan \/ x.nan THEN NaN ELSE IF LessEq(acc, x) THEN x ELSE acc
  IN reduce(max, numbers, Infinity(-1), 1)

\* Math.min(...numbers): Infinity for no argument, NaN if one is NaN
MathMin(numbers) ==
  LET min(acc, x) ==
        IF acc.nan \/ x.nan THEN NaN ELSE IF LessEq(x, acc) THEN x ELSE acc
  IN reduce(min, numbers, Infinity(1), 1)

RECURSIVE Gcd(_, _)
Gcd(a, b) == IF b = 0 THEN a ELSE Gcd(b, a % b)

\* The quotient a / b of two integers, b > 0, as a fraction in lowest terms
Quotient(a, b) == [num |-> a \div Gcd(a, b), den |-> b \div Gcd(a, b)]

isUserMessage(message) == PropIs(message, "type", "user")
isAssistantMessage(message) == PropIs(message, "type", "assistant")
isToolUseContent(content) == content = "tool_use"

\* message.message.content reads a property of undefined when the message
\* has no message property.
hasToolResultThrows(message) == ~HasProp(message, "message")

\* hasToolResult without the search for a tool_result block: every list counts.
hasToolResultAnyList(message) ==
  LET m == message.props.message IN
  /\ "content" \in DOMAIN m
  /\ m.content.isArray

\* The value of hasToolResult(message) when it does not throw.
hasToolResult(message) ==
  LET m == message.props.message IN
  /\ "content" \in DOMAIN m
  /\ m.content.isArray
  /\ \E k \in DOMAIN m.content.blocks : m.content.blocks[k] = "tool_result"

\* msg.message.usage and msg.message.content.filter(...) throw a TypeError
\* for an assistant message without message, or whose content is no list.
AssistantReadThrows(msg) ==
  \/ ~HasProp(msg, "message")
  \/ "content" \notin DOMAIN msg.props.message
  \/ ~msg.props.message.content.isArray

\* usage?.key ?? 0
UsageField(msg, key) ==
  IF "usage" \notin DOMAIN msg.props.message THEN 0
  ELSE IF key \notin DOMAIN msg.props.message.usage THEN 0
  ELSE msg.props.message.usage[key]

\* An absent property counted as 1.
PropOrOne(msg, key) == IF HasProp(msg, key) THEN msg.props[key] ELSE 1

\* msg.key || 0 for a numeric property
PropOrZero(msg, key) == IF HasProp(msg, key) THEN msg.props[key] ELSE 0

\* new Map()
EmptyMap == [k \in {} |-> 0]

\* map.set(key, (map.get(key) || 0) + 1)
Increment(map, key) ==
  [k \in DOMAIN map \cup {key} |->
     IF k = key THEN (IF key \in DOMAIN map THEN map[key] ELSE 0) + 1
     ELSE map[k]]

modelOf(msg) ==
  IF "model" \in DOMAIN msg.props.message THEN msg.props.message.model
  ELSE Undefined

\* The forEach over the messages with the null parent left out of the map.
childrenCountSkipsNull(msgs) ==
  LET set(map, msg) ==
        IF parentUuid(msg) = Null THEN map ELSE Increment(map, parentUuid(msg))
  IN reduce(set, msgs, EmptyMap, 1)

\* childrenCount after the forEach over the messages
childrenCount(msgs) ==
  LET set(map, msg) == Increment(map, parentUuid(msg))
  IN reduce(set, msgs, EmptyMap, 1)

ThrowsTypeError == [status |-> "TypeError", value |-> <<>>]

\* The statistics of the early return for no message
EmptyStats ==
  [messageCount |-> 0, userMessageCount |-> 0, assistantMessageCount |-> 0,
   totalCostUSD |-> 0,
   totalTokens |-> [input |-> 0, output |-> 0, cacheCreation |-> 0,
                    cacheRead |-> 0],
   averageResponseTimeMs |-> Quotient(0, 1),
   conversationDurationMs |-> Num(0),
   toolUsageCount |-> 0,
   models |-> EmptyMap,
   branches |-> 0]

\* The mean taken over the assistant messages that carry a durationMs.
averageResponseTimeMsOfTimed(assistantMessages) ==
  LET addDuration(sum, msg) == sum + PropOrZero(msg, "durationMs")
      timed(msg) == HasProp(msg, "durationMs")
  IN IF Len(SelectSeq(assistantMessages, timed)) > 0
       THEN Quotient(reduce(addDuration, assistantMessages, 0, 1),
                     Len(SelectSeq(assistantMessages, timed)))
       ELSE Quotient(0, 1)

\* averageResponseTimeMs: the sum of durationMs || 0 over the assistant
\* messages, divided by their number when there is one
averageResponseTimeMs(assistantMessages) ==
  LET addDuration(sum, msg) == sum + PropOrZero(msg, "durationMs")
  IN IF Len(assistantMessages) > 0
       THEN Quotient(reduce(addDuration, assistantMessages, 0, 1),
                     Len(assistantMessages))
       ELSE Quotient(0, 1)

\* conversationDurationMs: Math.max(...timestamps) - Math.min(...timestamps)
conversationDurationMs(msgs) ==
  LET timestamps == [k \in 1..Len(msgs) |-> DateGetTime(msgs[k])]
  IN Minus(MathMax(timestamps), MathMin(timestamps))

\* calculateConversationStats after its early return
StatsOfMessages(msgs) ==
  LET assistantMessages == SelectSeq(msgs, isAssistantMessage)
      userMessages == SelectSeq(msgs, isUserMessage)
      addTokens(acc, msg) ==
        [input |-> acc.input + UsageField(msg, "input_tokens"),
         output |-> acc.output + UsageField(msg, "output_tokens"),
         cacheCreation |->
           acc.cacheCreation + UsageField(msg, "cache_creation_input_tokens"),
         cacheRead |-> acc.cacheRead + UsageField(msg, "cache_read_input_tokens")]
      setModel(map, msg) == Increment(map, modelOf(msg))
      toolUses(count, msg) ==
        count + Len(SelectSeq(msg.props.message.content.blocks, isToolUseContent))
      addCost(sum, msg) == sum + PropOrZero(msg, "costUSD")
  IN
  IF \/ \E k \in 1..Len(assistantMessages) : AssistantReadThrows(assistantMessages[k])
     \/ \E k \in 1..Len(userMessages) : hasToolResultThrows(userMessages[k])
    THEN ThrowsTypeError
    ELSE Returned(
      [messageCount |-> Len(msgs),
       userMessageCount |-> Len(userMessages),
       assistantMessageCount |-> Len(assistantMessages),
       totalCostUSD |-> reduce(addCost, assistantMessages, 0, 1),
       totalTokens |->
         reduce(addTokens, assistantMessages,
                [input |-> 0, output |-> 0, cacheCreation |-> 0, cacheRead |-> 0], 1),
       averageResponseTimeMs |-> averageResponseTimeMs(assistantMessages),
       conversationDurationMs |-> conversationDurationMs(msgs),
       toolUsageCount |->
         reduce(toolUses, assistantMessages, 0, 1)
           + Len(SelectSeq(userMessages, hasToolResult)),
       models |-> reduce(setModel, assistantMessages, EmptyMap, 1),
       branches |->
         Cardinality({k \in DOMAIN childrenCount(msgs) : childrenCount(msgs)[k] > 1})])

\* calculateConversationStats without the early return for no message.
calculateConversationStatsNoEarlyReturn(conversation) ==
  StatsOfMessages(conversation.messages)

calculateConversationStats(conversation) ==
  IF Len(conversation.messages) = 0 THEN Returned(EmptyStats)
  ELSE StatsOfMessages(conversation.messages)

\* -------------------------------------------------------------------- state
VARIABLES
  lines,        \* the file, a sequence of lines
  caller,       \* the entry point that iterates the file
  pc,           \* "reading", "done", "parsed", "validated", "rejected"
  lineNumber,   \* readConversationLines: lines read
  yielded,      \* readConversationLines: entries yielded so far
  lineCount,    \* parseConversation
  summaries,    \* parseConversation
  messages,     \* parseConversation
  parseErrors,  \* parseConversation, parseAndValidateConversation
  thrown,       \* the error the call failed with towards its caller
  tree,         \* the outcome of buildConversationTree(messages)
  branch,       \* the outcome of getActiveBranch(conversation)
  call2,        \* a second parseConversation call on the same file
  stats,        \* the outcome of calculateConversationStats(conversation)
  stream        \* the file stream of the call: "unopened", "open", "closed",
                \* "let go" (the loop over rl was left before the end of
                \* the file), "paused" (let go and never read again)

vars == <<lines, caller, pc, lineNumber, yielded, lineCount, summaries,
          messages, parseErrors, thrown, tree, branch, call2, stats, stream>>

Callers == {"readConversationLines", "parseConversation",
            "parseAndValidateConversation"}

\* The lines a file of Spec is made of.
LineAlphabet ==
  {BlankLine, MalformedLine}
  \cup {JSONstringify(v) : v \in
         {JNumber, JNull, JArray, OtherEntry, NoUuidEntry, EmptyEntry,
          SummaryEntry("a"), MessageEntry("user", "a", Null),
          MessageEntry("assistant", "b", "a")}}

SeqsUpTo(S, n) == UNION {[1..k -> S] : k \in 0..n}

\* The state of a call before its first line is read.
Start ==
  /\ pc = "reading"
  /\ lineNumber = 0
  /\ yielded = <<>>
  /\ lineCount = 0
  /\ summaries = <<>>
  /\ messages = <<>>
  /\ parseErrors = <<>>
  /\ thrown = NoError
  /\ tree = NotCalled
  /\ branch = NotCalled
  /\ stats = NotCalled
  /\ stream = "unopened"

\* The locals of a parseConversation call (and of the generator it iterates)
\* before its first line is read; overlapped records whether the call has
\* read a line while the other call was between two of its lines.
FreshCall ==
  [pc |-> "reading", lineNumber |-> 0, lineCount |-> 0, summaries |-> <<>>,
   messages |-> <<>>, parseErrors |-> <<>>, thrown |-> NoError,
   overlapped |-> FALSE]
NoSecondCall == [FreshCall EXCEPT !.pc = "not called"]

Init ==
  /\ lines \in SeqsUpTo(LineAlphabet, MaxLines)
  /\ caller \in Callers
  /\ Start
  /\ call2 = NoSecondCall

\* The message lines a file of SpecGraph is made of: every uuid with every
\* parentUuid.
GraphAlphabet ==
  {JSONstringify(MessageEntry("user", u, p)) : u \in Uuids, p \in Uuids \cup {Null}}

\* A conversation file: at most one summary line, then message lines.
InitGraph ==
  /\ \E head \in {<<>>} \cup {<<JSONstringify(SummaryEntry(u))>> : u \in Uuids},
        body \in SeqsUpTo(GraphAlphabet, MaxMsgs) :
        lines = head \o body
  /\ caller = "parseAndValidateConversation"
  /\ Start
  /\ call2 = NoSecondCall

\* Messages as the analyzer reads them: users with text, with tool results
\* and with figures that only count on assistant messages; assistants with
\* all, some and none of the optional figures; a timestamp that is no date,
\* a message without timestamp, and messages without message property.
StatMessages ==
  {JObject([type |-> "user", uuid |-> "a", parentUuid |-> Null,
            timestamp |-> "1970-01-01T00:00:00.000Z",
            message |-> [content |-> Text]]),
   JObject([type |-> "user", uuid |-> "b", parentUuid |-> "a",
            timestamp |-> "1970-01-01T00:00:02.500Z",
            message |-> [content |-> Blocks(<<"tool_result">>)]]),
   JObject([type |-> "user", uuid |-> "b", parentUuid |-> "a",
            timestamp |-> "1970-01-01T00:00:01.000Z",
            message |-> [content |-> Blocks(<<"tool_result", "text", "tool_result">>)]]),
   JObject([type |-> "user", uuid |-> "a", parentUuid |-> Null,
            timestamp |-> "yesterday",
            message |-> [content |-> Blocks(<<"text">>)]]),
   JObject([type |-> "user", uuid |-> "a", parentUuid |-> "b",
            timestamp |-> "1970-01-01T00:00:01.000Z",
            costUSD |-> 7, durationMs |-> 900,
            message |-> [content |-> Text, model |-> "opus",
                         usage |-> [input_tokens |-> 100, output_tokens |-> 200,
                                    cache_creation_input_tokens |-> 300,
                                    cache_read_input_tokens |-> 400]]]),
   JObject([type |-> "user", uuid |-> "a", parentUuid |-> Null,
            timestamp |-> "1970-01-01T00:00:00.000Z"]),
   JObject([type |-> "assistant", uuid |-> "b", parentUuid |-> "a",
            timestamp |-> "1970-01-01T00:00:01.000Z",
            costUSD |-> 3, durationMs |-> 1000,
            message |-> [content |-> Blocks(<<"text", "tool_use">>), model |-> "opus",
                         usage |-> [input_tokens |-> 1, output_tokens |-> 2,
                                    cache_creation_input_tokens |-> 3,
                                    cache_read_input_tokens |-> 4]]]),
   JObject([type |-> "assistant", uuid |-> "b", parentUuid |-> "a",
            timestamp |-> "1970-01-01T00:00:02.500Z",
            message |-> [content |-> Blocks(<<"tool_use", "tool_use">>),
                         model |-> "sonnet"]]),
   JObject([type |-> "assistant", uuid |-> "a", parentUuid |-> Null,
            timestamp |-> "1970-01-01T00:00:00.000Z",
            costUSD |-> 5, durationMs |-> 501,
            message |-> [content |-> Blocks(<<>>), model |-> "opus",
                         usage |-> [input_tokens |-> 10, output_tokens |-> 20]]]),
   JObject([type |-> "assistant", uuid |-> "b", parentUuid |-> "b",
            message |-> [content |-> Blocks(<<"text">>), model |-> "sonnet"]]),
   MessageEntry("assistant", "b", "a")}

StatAlphabet ==
  {JSONstringify(v) : v \in StatMessages \cup {SummaryEntry("a"), OtherEntry}}

\* A conversation file whose result is passed to calculateConversationStats.
InitStats ==
  /\ lines \in SeqsUpTo(StatAlphabet, MaxStatLines)
  /\ caller = "parseConversation"
  /\ Start
  /\ call2 = NoSecondCall

\* Well-formed user and assistant messages with every parent of the model.
BranchAlphabet ==
  {JSONstringify(JObject([type |-> "user", uuid |-> "a", parentUuid |-> p,
                          timestamp |-> "1970-01-01T00:00:00.000Z",
                          message |-> [content |-> Text]])) :
     p \in Uuids \cup {Null}}
  \cup
  {JSONstringify(JObject([type |-> "assistant", uuid |-> "b", parentUuid |-> p,
                          timestamp |-> "1970-01-01T00:00:01.000Z",
                          message |-> [content |-> Blocks(<<"text">>),
                                       model |-> "opus"]])) :
     p \in Uuids \cup {Null}}

\* A file of message lines only, for the count of fork points.
InitBranches ==
  /\ lines \in SeqsUpTo(BranchAlphabet, MaxBranchMsgs)
  /\ caller = "parseConversation"
  /\ Start
  /\ call2 = NoSecondCall

\* A file read by parseConversation or by a direct iteration.
InitStream ==
  /\ lines \in SeqsUpTo(LineAlphabet, MaxLines)
  /\ caller \in {"readConversationLines", "parseConversation"}
  /\ Start
  /\ call2 = NoSecondCall

\* A file for parseAndValidateConversation: message lines, before them
\* nothing or an unrecognized entry and a summary, after them nothing or a
\* line that is not JSON.
InitValidate ==
  /\ \E head \in {<<>>, <<JSONstringify(OtherEntry), JSONstringify(SummaryEntry("a"))>>},
        body \in SeqsUpTo(GraphAlphabet, MaxMsgs),
        tail \in {<<>>, <<MalformedLine>>} :
        lines = head \o body \o tail
  /\ caller = "parseAndValidateConversation"
  /\ Start
  /\ call2 = NoSecondCall

\* Two parseConversation calls on one file.
InitTwo ==
  /\ lines \in SeqsUpTo(LineAlphabet, MaxLines)
  /\ caller = "parseConversation"
  /\ Start
  /\ call2 = FreshCall

\* NextLine with summaries.unshift(entry) and messages.unshift(entry)
NextLineUnshift ==
  /\ pc = "reading"
  /\ lineNumber < Len(lines)
  /\ lineNumber' = lineNumber + 1
  /\ LET line == lines[lineNumber + 1]
         entry == JSONparse(line)
         direct == caller = "readConversationLines"
     IN
     IF trim(line) = "" THEN
       UNCHANGED <<pc, yielded, lineCount, summaries, messages, parseErrors, thrown>>
     ELSE IF entry = SyntaxError THEN
       \* the generator throws; parseConversation's catch records it
       LET e == FailedToParse(lineNumber + 1) IN
       /\ pc' = IF direct THEN "rejected" ELSE "parsed"
       /\ thrown' = IF direct THEN e ELSE thrown
       /\ parseErrors' = IF direct \/ ~IsDecodeError(e) THEN parseErrors
                         ELSE Append(parseErrors, DecodeParseError(e))
       /\ UNCHANGED <<yielded, lineCount, summaries, messages>>
     ELSE
       /\ yielded' = Append(yielded, entry)
       /\ IF direct THEN
            UNCHANGED <<pc, lineCount, summaries, messages, parseErrors, thrown>>
          ELSE
            /\ lineCount' = lineCount + 1
            /\ IF isSummaryMessage(entry) THEN
                 /\ summaries' = <<entry>> \o summaries
                 /\ UNCHANGED <<pc, messages, parseErrors, thrown>>
               ELSE IF isConversationMessageThrows(entry) THEN
                 \* not a decode error: the catch block throws it again
                 /\ pc' = "rejected"
                 /\ thrown' = TypeError
                 /\ UNCHANGED <<summaries, messages, parseErrors>>
               ELSE IF isConversationMessage(entry) THEN
                 /\ messages' = <<entry>> \o messages
                 /\ UNCHANGED <<pc, summaries, parseErrors, thrown>>
               ELSE
                 /\ parseErrors' =
                      Append(parseErrors, UnknownEntryError(lineCount + 1, entry))
                 /\ UNCHANGED <<pc, summaries, messages, thrown>>
  /\ stream' = IF pc' = "reading" THEN "open" ELSE "let go"
  /\ UNCHANGED <<lines, caller, call2, stats, tree, branch>>

\* One iteration of `for await (const line of rl)` with what the consumer of
\* the yielded entry does before the next line is read: nothing more for a
\* direct iteration, the loop body and the catch block of parseConversation
\* otherwise.
NextLine ==
  /\ pc = "reading"
  /\ lineNumber < Len(lines)
  /\ lineNumber' = lineNumber + 1
  /\ LET line == lines[lineNumber + 1]
         entry == JSONparse(line)
         direct == caller = "readConversationLines"
     IN
     IF trim(line) = "" THEN
       UNCHANGED <<pc, yielded, lineCount, summaries, messages, parseErrors, thrown>>
     ELSE IF entry = SyntaxError THEN
       \* the generator throws; parseConversation's catch records it
       LET e == FailedToParse(lineNumber + 1) IN
       /\ pc' = IF direct THEN "rejected" ELSE "parsed"
       /\ thrown' = IF direct THEN e ELSE thrown
       /\ parseErrors' = IF direct \/ ~IsDecodeError(e) THEN parseErrors
                         ELSE Append(parseErrors, DecodeParseError(e))
       /\ UNCHANGED <<yielded, lineCount, summaries, messages>>
     ELSE
       /\ yielded' = Append(yielded, entry)
       /\ IF direct THEN
            UNCHANGED <<pc, lineCount, summaries, messages, parseErrors, thrown>>
          ELSE
            /\ lineCount' = lineCount + 1
            /\ IF isSummaryMessage(entry) THEN
                 /\ summaries' = Append(summaries, entry)
                 /\ UNCHANGED <<pc, messages, parseErrors, thrown>>
               ELSE IF isConversationMessageThrows(entry) THEN
                 \* not a decode error: the catch block throws it again
                 /\ pc' = "rejected"
                 /\ thrown' = TypeError
                 /\ UNCHANGED <<summaries, messages, parseErrors>>
               ELSE IF isConversationMessage(entry) THEN
                 /\ messages' = Append(messages, entry)
                 /\ UNCHANGED <<pc, summaries, parseErrors, thrown>>
               ELSE
                 /\ parseErrors' =
                      Append(parseErrors, UnknownEntryError(lineCount + 1, entry))
                 /\ UNCHANGED <<pc, summaries, messages, thrown>>
  /\ stream' = IF pc' = "reading" THEN "open" ELSE "let go"
  /\ UNCHANGED <<lines, caller, call2, stats, tree, branch>>

\* The line source is exhausted: the generator returns, the for await loop
\* ends, and parseConversation returns its result.
EndOfFile ==
  /\ pc = "reading"
  /\ lineNumber = Len(lines)
  /\ pc' = IF caller = "readConversationLines" THEN "done" ELSE "parsed"
  /\ stream' = "closed"
  /\ UNCHANGED <<lines, caller, call2, stats, lineNumber, yielded, lineCount, summaries,
                 messages, parseErrors, thrown, tree, branch>>

\* Validate with result.parseErrors = validationErrors
ValidateReplacesErrors ==
  /\ caller = "parseAndValidateConversation"
  /\ pc = "parsed"
  /\ parseErrors' = validationErrors(summaries, messages)
  /\ pc' = "validated"
  /\ UNCHANGED <<lines, caller, call2, stats, stream, lineNumber, yielded, lineCount, summaries,
                 messages, thrown, tree, branch>>

\* parseAndValidateConversation, after `await parseConversation(filePath)`:
\* both passes over result.messages and the push of the validation errors.
Validate ==
  /\ caller = "parseAndValidateConversation"
  /\ pc = "parsed"
  /\ parseErrors' = parseErrors \o validationErrors(summaries, messages)
  /\ pc' = "validated"
  /\ UNCHANGED <<lines, caller, call2, stats, stream, lineNumber, yielded, lineCount, summaries,
                 messages, thrown, tree, branch>>

\* The caller holds the ParsedConversation its call resolved with.
ResultInHand ==
  \/ caller = "parseConversation" /\ pc = "parsed"
  \/ pc = "validated"

\* The caller passes the messages of the result to buildConversationTree.
BuildTree ==
  /\ ResultInHand
  /\ tree = NotCalled
  /\ tree' = buildConversationTree(messages)
  /\ UNCHANGED <<lines, caller, call2, stats, stream, pc, lineNumber, yielded, lineCount, summaries,
                 messages, parseErrors, thrown, branch>>

\* The caller passes the result to getActiveBranch.
ActiveBranch ==
  /\ ResultInHand
  /\ branch = NotCalled
  /\ branch' = getActiveBranch(summaries, messages)
  /\ UNCHANGED <<lines, caller, call2, stats, stream, pc, lineNumber, yielded, lineCount, summaries,
                 messages, parseErrors, thrown, tree>>

\* What one resumption of a parseConversation call with locals c does on the
\* file ls: the next line is read and its entry classified, or the generator
\* ends or throws and parseConversation returns or throws.
parseConversationStep(c, ls) ==
  IF c.lineNumber = Len(ls) THEN [c EXCEPT !.pc = "parsed"]
  ELSE
    LET n == c.lineNumber + 1
        line == ls[n]
        entry == JSONparse(line)
        read == [c EXCEPT !.lineNumber = n]
    IN
    IF trim(line) = "" THEN read
    ELSE IF entry = SyntaxError THEN
      LET e == FailedToParse(n) IN
      IF IsDecodeError(e)
        THEN [read EXCEPT !.pc = "parsed",
                          !.parseErrors = Append(@, DecodeParseError(e))]
        ELSE [read EXCEPT !.pc = "rejected", !.thrown = e]
    ELSE
      LET counted == [read EXCEPT !.lineCount = @ + 1] IN
      IF isSummaryMessage(entry)
        THEN [counted EXCEPT !.summaries = Append(@, entry)]
      ELSE IF isConversationMessageThrows(entry)
        THEN [counted EXCEPT !.pc = "rejected", !.thrown = TypeError]
      ELSE IF isConversationMessage(entry)
        THEN [counted EXCEPT !.messages = Append(@, entry)]
      ELSE [counted EXCEPT !.parseErrors =
                             Append(@, UnknownEntryError(c.lineCount + 1, entry))]

\* The first call is between two of its lines.
FirstCallUnderWay == pc = "reading" /\ lineNumber > 0

\* The second call with `let lineNumber` at module level: both generators
\* count in the same variable.
SecondCallStepSharedLineNumber ==
  /\ call2.pc = "reading"
  /\ call2' = [parseConversationStep([call2 EXCEPT !.lineNumber = lineNumber], lines)
                 EXCEPT !.overlapped = @ \/ FirstCallUnderWay]
  /\ UNCHANGED <<lines, caller, pc, lineNumber, yielded, lineCount, summaries,
                 messages, parseErrors, thrown, tree, branch, stats, stream>>

\* The second call is resumed: it works on its own locals and its own stream.
SecondCallStep ==
  /\ call2.pc = "reading"
  /\ call2' = [parseConversationStep(call2, lines)
                 EXCEPT !.overlapped = @ \/ FirstCallUnderWay]
  /\ UNCHANGED <<lines, caller, pc, lineNumber, yielded, lineCount, summaries,
                 messages, parseErrors, thrown, tree, branch, stats, stream>>

\* The caller passes the result to calculateConversationStats.
CalculateStats ==
  /\ ResultInHand
  /\ stats = NotCalled
  /\ stats' = calculateConversationStats(
                 [summaries |-> summaries, messages |-> messages,
                  lineCount |-> lineCount, parseErrors |-> parseErrors])
  /\ UNCHANGED <<lines, caller, call2, stream, pc, lineNumber, yielded, lineCount,
                 summaries, messages, parseErrors, thrown, tree, branch>>

\* A caller of readConversationLines leaves its for await loop (break, return
\* or throw) after an entry: the generator is ended at its yield and the loop
\* over rl is left.  The source closes neither rl nor fileStream.
Abandon ==
  /\ caller = "readConversationLines"
  /\ pc = "reading"
  /\ lineNumber > 0
  /\ trim(lines[lineNumber]) # ""
  /\ pc' = "abandoned"
  /\ stream' = "let go"
  /\ UNCHANGED <<lines, caller, call2, stats, lineNumber, yielded, lineCount,
                 summaries, messages, parseErrors, thrown, tree, branch>>

\* The file stream after the loop over rl was left, where the stream goes on
\* to read with nobody listening: it reaches the end of the file and closes
\* itself (autoClose).
StreamDrains ==
  /\ stream = "let go"
  /\ stream' = "closed"
  /\ UNCHANGED <<lines, caller, call2, stats, pc, lineNumber, yielded,
                 lineCount, summaries, messages, parseErrors, thrown, tree, branch>>

\* The file stream after the loop over rl was left, where leaving the loop
\* closes rl and rl.close() pauses its input: nothing reads the stream again
\* and nothing destroys it, the file stays open.
StreamStaysPaused ==
  /\ stream = "let go"
  /\ stream' = "paused"
  /\ UNCHANGED <<lines, caller, call2, stats, pc, lineNumber, yielded,
                 lineCount, summaries, messages, parseErrors, thrown, tree, branch>>

Next == NextLine \/ EndOfFile \/ Validate \/ BuildTree \/ ActiveBranch

NextValidate == NextLine \/ EndOfFile \/ Validate

NextStream ==
  NextLine \/ EndOfFile \/ Abandon \/ StreamDrains \/ StreamStaysPaused

NextStats == NextLine \/ EndOfFile \/ CalculateStats

NextTwo == NextLine \/ EndOfFile \/ SecondCallStep

Spec == Init /\ [][Next]_vars

SpecGraph == InitGraph /\ [][Next]_vars

SpecTwo == InitTwo /\ [][NextTwo]_vars

\* The event loop resumes the generator while it has lines to read, and the
\* stream that was let go meets one of its two fates; a caller need not ever
\* abandon.
SpecStream ==
  /\ InitStream
  /\ [][NextStream]_vars
  /\ WF_vars(NextLine)
  /\ WF_vars(EndOfFile)
  /\ WF_vars(StreamDrains \/ StreamStaysPaused)

SpecValidate == InitValidate /\ [][NextValidate]_vars

SpecStats == InitStats /\ [][NextStats]_vars

SpecBranches == InitBranches /\ [][NextStats]_vars

\* =============================================================== properties
\* What the properties say about a file, stated on the lines themselves.
IndexesWhere(n, P(_)) == SelectSeq([i \in 1..n |-> i], P)

\* 1-based number of the first non-blank line that is not valid JSON, 0 if none
FirstMalformed ==
  IF \E k \in 1..Len(lines) : lines[k].text = "malformed"
    THEN CHOOSE k \in 1..Len(lines) :
           /\ lines[k].text = "malformed"
           /\ \A j \in 1..(k - 1) : lines[j].text # "malformed"
    ELSE 0

\* The values of the valid JSON lines among the first n lines, in file order
EntriesUpTo(n) ==
  LET ix == IndexesWhere(n, LAMBDA i : lines[i].text = "json")
  IN [k \in 1..Len(ix) |-> lines[ix[k]].value]

\* The three buckets of an entry
TypeTag(e) == IF "type" \in DOMAIN e.props THEN e.props.type ELSE "<missing>"
IsSummaryRecord(e) == TypeTag(e) = "summary"
IsMessageRecord(e) ==
  TypeTag(e) \in {"user", "assistant"} /\ "uuid" \in DOMAIN e.props
IsUnrecognized(e) == ~IsSummaryRecord(e) /\ ~IsMessageRecord(e)

IsUnknownEntryError(err) == err.error[1] = "Unknown entry type"
IsDecodeParseError(err) == err.error[1] = "Failed to parse line"

Assembling == caller # "readConversationLines"

\* C1: when the first line that is not valid JSON is line k, parseConversation
\* does not throw, never reads past line k, and returns the summaries and
\* messages of the lines before k with exactly one decode error, whose line is k.
C1_DecodeFailureIsRecorded ==
  (Assembling /\ FirstMalformed # 0) =>
    /\ pc # "rejected"
    /\ lineNumber <= FirstMalformed
    /\ pc \in {"parsed", "validated"} =>
         LET before == EntriesUpTo(FirstMalformed - 1)
             decode == SelectSeq(parseErrors, IsDecodeParseError)
         IN /\ summaries = SelectSeq(before, IsSummaryRecord)
            /\ messages = SelectSeq(before, IsMessageRecord)
            /\ Len(decode) = 1
            /\ decode[1].line = FirstMalformed

\* C2: every line that decodes but is no summary, user or assistant record
\* (non-object values included) gets one 'Unknown entry type' error holding
\* the serialized entry, and parseConversation goes on and does not throw.
C2_UnrecognizedIsRecorded ==
  Assembling =>
    LET unknown == SelectSeq(parseErrors, IsUnknownEntryError)
        odd == SelectSeq(yielded, IsUnrecognized)
    IN /\ pc # "rejected"
       /\ Len(unknown) = Len(odd)
       /\ \A k \in 1..Len(unknown) : unknown[k].content = JSONstringify(odd[k])

\* C3: every entry decoded so far is in exactly one bucket: lineCount is the
\* sum of the three bucket sizes, summaries holds the entries of type summary,
\* messages the user and assistant entries with a uuid.
C3_ExactlyOneBucket ==
  Assembling =>
    /\ lineCount = Len(summaries) + Len(messages)
                     + Len(SelectSeq(parseErrors, IsUnknownEntryError))
    /\ lineCount = Len(yielded)
    /\ summaries = SelectSeq(yielded, IsSummaryRecord)
    /\ messages = SelectSeq(yielded, IsMessageRecord)

\* C10: a direct iteration of readConversationLines yields the entries of the
\* non-blank lines read so far, in file order, never reads past the first
\* malformed line k, and at line k fails with the error that names line k.
C10_DirectIterationFailsAtLineK ==
  (~Assembling) =>
    /\ yielded = EntriesUpTo(lineNumber)
    /\ FirstMalformed # 0 =>
         /\ lineNumber <= FirstMalformed
         /\ pc # "done"
         /\ lineNumber = FirstMalformed => pc = "rejected"
    /\ pc = "rejected" =>
         /\ lineNumber = FirstMalformed
         /\ thrown = <<"Failed to parse line", FirstMalformed>>
         /\ yielded = EntriesUpTo(FirstMalformed - 1)
    /\ pc # "rejected" => thrown = NoError

\* C10 witness: the iteration failed at line 3 after a blank line and one entry.
C10_Witness ==
  /\ ~Assembling
  /\ pc = "rejected"
  /\ FirstMalformed = 3
  /\ Len(yielded) = 1
  /\ \E j \in 1..2 : lines[j].text = "blank"

\* ------------------------------------------------ the message graph (C4..C9)
NMsgs == Len(messages)
Range(f) == {f[k] : k \in DOMAIN f}
StrictlyIncreasing(f) == \A a, b \in DOMAIN f : a < b => f[a] < f[b]

UniqueUuids ==
  \A i, j \in 1..NMsgs : uuid(messages[i]) = uuid(messages[j]) => i = j

IsDuplicateError(err) == err.error[1] = "Duplicate UUID"
IsOrphanError(err) == err.error[1] = "Orphaned message"

\* The message at position i names a parent that no message has as uuid.
IsOrphaned(i) ==
  /\ parentUuid(messages[i]) # Null
  /\ \A j \in 1..NMsgs : uuid(messages[j]) # parentUuid(messages[i])
Orphaned == IndexesWhere(NMsgs, IsOrphaned)

\* The message at position i repeats the uuid of an earlier message.
IsLaterOccurrence(i) == \E j \in 1..(i - 1) : uuid(messages[j]) = uuid(messages[i])
LaterOccurrences == IndexesWhere(NMsgs, IsLaterOccurrence)

\* C4: the orphan errors are, in order, one for each message whose parentUuid
\* is non-null and is the uuid of no message, and none for any other message.
C4_OrphanExactlyOnce ==
  pc = "validated" =>
    LET errs == SelectSeq(parseErrors, IsOrphanError)
    IN /\ Len(errs) = Len(Orphaned)
       /\ \A k \in 1..Len(errs) :
            /\ errs[k].line = Orphaned[k] + Len(summaries)
            /\ errs[k].error[2] = parentUuid(messages[Orphaned[k]])

\* C5: the duplicate errors are, in order, one for each second or later
\* occurrence of a uuid and none for a first occurrence: a uuid that occurs
\* k >= 1 times is named by exactly k - 1 duplicate errors.
C5_DuplicateSecondAndLater ==
  pc = "validated" =>
    LET errs == SelectSeq(parseErrors, IsDuplicateError)
    IN /\ Len(errs) = Len(LaterOccurrences)
       /\ \A k \in 1..Len(errs) :
            /\ errs[k].line = LaterOccurrences[k] + Len(summaries)
            /\ errs[k].error[2] = uuid(messages[LaterOccurrences[k]])
       /\ \A u \in Uuids :
            LET occ == Cardinality({i \in 1..NMsgs : uuid(messages[i]) = u})
                named == Cardinality({k \in 1..Len(errs) : errs[k].error[2] = u})
            IN named = (IF occ = 0 THEN 0 ELSE occ - 1)

\* C5 witness: one uuid occurs three times and is reported twice.
C5_Witness ==
  /\ pc = "validated"
  /\ NMsgs = 3
  /\ \A i \in 1..NMsgs : uuid(messages[i]) = uuid(messages[1])
  /\ Len(SelectSeq(parseErrors, IsDuplicateError)) = 2

\* The nodes of a tree and of a forest, at all depths
RECURSIVE NodesOf(_)
NodesOf(node) ==
  {node} \cup UNION {NodesOf(node.children[k]) : k \in 1..Len(node.children)}
ForestNodes(forest) == UNION {NodesOf(forest[k]) : k \in 1..Len(forest)}

RECURSIVE SumFrom(_, _, _)
SumFrom(f(_), k, n) == IF k > n THEN 0 ELSE f(k) + SumFrom(f, k + 1, n)

RECURSIVE TreeSize(_)
TreeSize(node) ==
  LET size(k) == TreeSize(node.children[k])
  IN 1 + SumFrom(size, 1, Len(node.children))
NodeCount(forest) ==
  LET size(k) == TreeSize(forest[k]) IN SumFrom(size, 1, Len(forest))

\* The messages whose chain of parentUuid links ends at a message with null
\* parentUuid: the least set that holds the null-parent messages and every
\* message whose parentUuid is the uuid of a message of the set.
RECURSIVE RootedWithin(_, _)
RootedWithin(R, n) ==
  IF n = 0 THEN R
  ELSE RootedWithin(
         R \cup {i \in 1..NMsgs :
                   \E j \in R : parentUuid(messages[i]) = uuid(messages[j])},
         n - 1)
Rooted == RootedWithin({i \in 1..NMsgs : parentUuid(messages[i]) = Null}, NMsgs)

\* C6 as stated: the forest has messages.length minus the orphaned messages
\* nodes, for every message list.
C6_NodesAreAllButOrphans ==
  tree.status = "returned" =>
    NodeCount(tree.value) = NMsgs - Len(Orphaned)

\* C6 amended: with unique uuids buildConversationTree returns, and the forest
\* has one node for each message whose chain of parentUuid links ends at a
\* null-parent message: messages.length minus the orphaned messages, their
\* descendants and the messages on or below a cycle of parent links.
C6_NodesAreTheRootedMessages ==
  (tree # NotCalled /\ UniqueUuids) =>
    /\ tree.status = "returned"
    /\ NodeCount(tree.value) = NMsgs - Cardinality((1..NMsgs) \ Rooted)
    /\ {node.message : node \in ForestNodes(tree.value)} = Rooted

\* C6 witness: unique uuids, a forest with a node, and a message that is not
\* orphaned and still is in no tree.
C6_Witness ==
  /\ tree.status = "returned"
  /\ UniqueUuids
  /\ NodeCount(tree.value) >= 1
  /\ NodeCount(tree.value) < NMsgs - Len(Orphaned)

Leaf == leafUuid(summaries[1])
Paths == SeqsUpTo(1..NMsgs, NMsgs)
IsChain(s) ==
  /\ Len(s) >= 1
  /\ parentUuid(messages[s[1]]) = Null
  /\ uuid(messages[s[Len(s)]]) = Leaf
  /\ \A k \in 2..Len(s) : parentUuid(messages[s[k]]) = uuid(messages[s[k - 1]])

\* Every element is the last message in file order that has its uuid.
IsLastOfItsUuid(i) == \A j \in 1..NMsgs : uuid(messages[j]) = uuid(messages[i]) => j <= i
IsResolvedChain(s) == IsChain(s) /\ \A k \in 1..Len(s) : IsLastOfItsUuid(s[k])

\* C8 as stated: when some message with the leafUuid has a chain of parent
\* links up to a null-parent message, the returned path is such a chain.
C8_ReturnsTheChain ==
  (branch.status = "returned" /\ Len(summaries) > 0 /\ \E s \in Paths : IsChain(s)) =>
    IsChain(branch.value)

\* C8 amended: a uuid that several messages have names the last of them; when
\* the chain of the message the leafUuid names reaches a null-parent message,
\* getActiveBranch returns exactly that chain, root first and leaf last.
C8_ReturnsTheResolvedChain ==
  (branch # NotCalled /\ Len(summaries) > 0) =>
    \A s \in Paths : IsResolvedChain(s) => branch = Returned(s)

\* C8 witness: a chain of three messages that do not stand in chain order.
C8_Witness ==
  /\ branch.status = "returned"
  /\ Len(summaries) > 0
  /\ Len(branch.value) = 3
  /\ IsResolvedChain(branch.value)
  /\ ~StrictlyIncreasing(branch.value)

\* C9: with a summary and a message and a leafUuid that no message has,
\* getActiveBranch returns all messages in file order.
C9_MissingLeafReturnsAllMessages ==
  (/\ branch # NotCalled
   /\ Len(summaries) > 0
   /\ NMsgs > 0
   /\ \A i \in 1..NMsgs : uuid(messages[i]) # Leaf) =>
    branch = Returned([i \in 1..NMsgs |-> i])

\* C9 witness: three messages, none with the leafUuid, all returned.
C9_Witness ==
  /\ branch.status = "returned"
  /\ Len(summaries) > 0
  /\ NMsgs = 3
  /\ \A i \in 1..NMsgs : uuid(messages[i]) # Leaf
  /\ Len(branch.value) = 3

\* ------------------------------------------------- line numbers and order
NonBlankCount == Cardinality({i \in 1..Len(lines) : lines[i].text # "blank"})

\* 1-based numbers of the lines read so far whose entry satisfies P
LinesWhere(P(_)) ==
  IndexesWhere(lineNumber, LAMBDA i : lines[i].text = "json" /\ P(lines[i].value))
EntriesAt(ix) == [k \in 1..Len(ix) |-> lines[ix[k]].value]

\* C11: when every non-blank line decodes, the iteration ends with as many
\* entries yielded as there are non-blank lines, blank lines taking no
\* position, and parseConversation returns with lineCount equal to that number.
C11_OneEntryPerNonBlankLine ==
  FirstMalformed = 0 =>
    /\ pc # "rejected"
    /\ lineNumber = Len(lines) =>
         /\ Len(yielded) = NonBlankCount
         /\ Assembling => lineCount = NonBlankCount

\* C12: every ParseError that parseConversation records, for an unrecognized
\* entry and for a decode failure alike, has as line the 1-based number of the
\* offending line, blank lines counted.
C12_ErrorLineIsFileLine ==
  Assembling =>
    LET unknown == SelectSeq(parseErrors, IsUnknownEntryError)
        decode == SelectSeq(parseErrors, IsDecodeParseError)
        at == LinesWhere(IsUnrecognized)
    IN /\ \A k \in 1..Len(unknown) : k <= Len(at) /\ unknown[k].line = at[k]
       /\ \A k \in 1..Len(decode) : decode[k].line = FirstMalformed

\* C13: messages and summaries hold the entries of their source lines in the
\* order of the lines, each once.
C13_FileOrderIsKept ==
  Assembling =>
    /\ messages = EntriesAt(LinesWhere(IsMessageRecord))
    /\ summaries = EntriesAt(LinesWhere(IsSummaryRecord))

\* C13 witness: a result with two different messages from lines 1 and 3.
C13_Witness ==
  /\ caller = "parseConversation"
  /\ pc = "parsed"
  /\ Len(lines) = 3
  /\ Len(messages) = 2
  /\ messages[1] # messages[2]
  /\ lines[1].text = "json"
  /\ lines[3].text = "json"
  /\ messages[1] = lines[1].value
  /\ messages[2] = lines[3].value

\* C15: the step from parseConversation's result to the result of
\* parseAndValidateConversation keeps summaries, messages and lineCount,
\* keeps the parse errors as the head of parseErrors, appends validation
\* errors only, and does not throw.
IsValidationError(err) == IsDuplicateError(err) \/ IsOrphanError(err)
C15_ValidationOnlyAppends ==
  [][(caller = "parseAndValidateConversation" /\ pc = "parsed") =>
       /\ pc' \in {"parsed", "validated"}
       /\ thrown' = thrown
       /\ summaries' = summaries
       /\ messages' = messages
       /\ lineCount' = lineCount
       /\ Len(parseErrors') >= Len(parseErrors)
       /\ SubSeq(parseErrors', 1, Len(parseErrors)) = parseErrors
       /\ \A k \in (Len(parseErrors) + 1)..Len(parseErrors') :
            IsValidationError(parseErrors'[k])]_vars

\* C15 witness: a validated result that holds two messages, a parse error and
\* a validation error.
C15_Witness ==
  /\ pc = "validated"
  /\ Len(messages) = 2
  /\ Len(parseErrors) >= 2
  /\ IsUnknownEntryError(parseErrors[1])
  /\ IsValidationError(parseErrors[Len(parseErrors)])

\* ----------------------------------------------------------- C16, C17, C18
\* The number of nodes of a tree and of a forest that hold the message at i
RECURSIVE HoldersIn(_, _)
HoldersIn(node, i) ==
  LET below(k) == HoldersIn(node.children[k], i)
  IN (IF node.message = i THEN 1 ELSE 0) + SumFrom(below, 1, Len(node.children))
Holders(forest, i) ==
  LET in(k) == HoldersIn(forest[k], i) IN SumFrom(in, 1, Len(forest))

\* C16 as stated: for any input list no message is held by two nodes.
C16_NoMessageInTwoNodes ==
  tree.status = "returned" =>
    \A i \in 1..NMsgs : Holders(tree.value, i) <= 1

\* C16 amended: for an input list with unique uuids no message is held by
\* two nodes of the forest.
C16_UniqueUuidsNoMessageInTwoNodes ==
  (tree.status = "returned" /\ UniqueUuids) =>
    \A i \in 1..NMsgs : Holders(tree.value, i) <= 1

\* C16 witness: unique uuids and a forest of three nodes, one with two children.
C16_Witness ==
  /\ tree.status = "returned"
  /\ UniqueUuids
  /\ NodeCount(tree.value) = 3
  /\ \E node \in ForestNodes(tree.value) : Len(node.children) = 2

\* A path of parent links down to the branch tip that starts at a message
\* whose parent no message has, every element the last message of its uuid.
IsBrokenChain(s) ==
  /\ Len(s) >= 1
  /\ IsOrphaned(s[1])
  /\ uuid(messages[s[Len(s)]]) = Leaf
  /\ \A k \in 2..Len(s) : parentUuid(messages[s[k]]) = uuid(messages[s[k - 1]])
  /\ \A k \in 1..Len(s) : IsLastOfItsUuid(s[k])

\* C17: when the walk from the leaf reaches a message whose non-null
\* parentUuid is the uuid of no message, getActiveBranch returns the path from
\* that message down to the leaf.
C17_StopsAtMissingParent ==
  (branch # NotCalled /\ Len(summaries) > 0) =>
    \A s \in Paths : IsBrokenChain(s) => branch = Returned(s)

\* C17 witness: a returned path of two messages, the first with a missing parent.
C17_Witness ==
  /\ branch.status = "returned"
  /\ Len(summaries) > 0
  /\ Len(branch.value) = 2
  /\ IsBrokenChain(branch.value)

\* C18: without a summary or without a message getActiveBranch returns the
\* empty list.
C18_EmptyWithoutSummaryOrMessage ==
  (branch # NotCalled /\ (Len(summaries) = 0 \/ NMsgs = 0)) =>
    branch = Returned(<<>>)

\* C18 witness: three messages and no summary.
C18_Witness ==
  /\ branch = Returned(<<>>)
  /\ Len(summaries) = 0
  /\ NMsgs = 3

\* ----------------------------------------------------------------- two calls
\* C14: two parseConversation calls on the same file, their line reads
\* interleaved in any way, end alike: both return, with equal summaries,
\* messages, lineCount and parseErrors, or both throw the same error.
C14_TwoCallsSameResult ==
  (pc \in {"parsed", "rejected"} /\ call2.pc \in {"parsed", "rejected"}) =>
    /\ call2.pc = pc
    /\ call2.thrown = thrown
    /\ pc = "parsed" =>
         /\ call2.summaries = summaries
         /\ call2.messages = messages
         /\ call2.lineCount = lineCount
         /\ call2.parseErrors = parseErrors

\* C14 witness: both calls returned a message, a summary and an error, and the
\* second call read a line while the first was between two lines.
C14_Witness ==
  /\ pc = "parsed"
  /\ call2.pc = "parsed"
  /\ call2.overlapped
  /\ Len(call2.messages) = 1
  /\ Len(call2.summaries) = 1
  /\ Len(call2.parseErrors) = 1

\* ------------------------------------------------------------ the statistics
StatsReturned == stats.status = "returned"

\* C19: for a conversation without messages calculateConversationStats
\* returns 0 for every numeric statistic and an empty models map, whatever
\* summaries and parseErrors hold.
C19_ZeroMessagesAllZero ==
  (stats # NotCalled /\ NMsgs = 0) =>
    /\ StatsReturned
    /\ stats.value.messageCount = 0
    /\ stats.value.userMessageCount = 0
    /\ stats.value.assistantMessageCount = 0
    /\ stats.value.totalCostUSD = 0
    /\ stats.value.totalTokens.input = 0
    /\ stats.value.totalTokens.output = 0
    /\ stats.value.totalTokens.cacheCreation = 0
    /\ stats.value.totalTokens.cacheRead = 0
    /\ stats.value.averageResponseTimeMs = Quotient(0, 1)
    /\ stats.value.conversationDurationMs = Num(0)
    /\ stats.value.toolUsageCount = 0
    /\ stats.value.branches = 0
    /\ DOMAIN stats.value.models = {}

\* C19 witness: statistics of a conversation with a summary and a parse
\* error but no message.
C19_Witness ==
  /\ stats # NotCalled
  /\ NMsgs = 0
  /\ Len(summaries) > 0
  /\ Len(parseErrors) > 0

\* The parentUuid values that more than one message has
SharedParents ==
  {p \in Uuids \cup {Null} :
     \E i, j \in 1..NMsgs :
       i # j /\ parentUuid(messages[i]) = p /\ parentUuid(messages[j]) = p}

IsUser(m) == m.props.type = "user"
IsAssistant(m) == m.props.type = "assistant"
MessageIndexes == 1..NMsgs
AssistantIndexes == {i \in MessageIndexes : IsAssistant(messages[i])}

\* Sum of f over the finite set S of indexes
RECURSIVE SumOver(_, _)
SumOver(f, S) ==
  IF S = {} THEN 0
  ELSE LET x == CHOOSE x \in S : TRUE IN f[x] + SumOver(f, S \ {x})

\* Number of tool_use blocks of the content of message i
ToolUseBlocks(i) ==
  LET blocks == messages[i].props.message.content.blocks
  IN Cardinality({k \in DOMAIN blocks : blocks[k] = "tool_use"})

\* User message i has a list as content, with a tool_result block in it
HoldsToolResult(i) ==
  /\ IsUser(messages[i])
  /\ "content" \in DOMAIN messages[i].props.message
  /\ messages[i].props.message.content.isArray
  /\ \E k \in DOMAIN messages[i].props.message.content.blocks :
       messages[i].props.message.content.blocks[k] = "tool_result"

\* C21: toolUsageCount is the number of tool_use blocks of all assistant
\* messages plus the number of user messages whose content is a list with at
\* least one tool_result block.
C21_ToolUsageCount ==
  (StatsReturned /\ NMsgs > 0) =>
    stats.value.toolUsageCount =
      SumOver([i \in AssistantIndexes |-> ToolUseBlocks(i)], AssistantIndexes)
        + Cardinality({i \in MessageIndexes : HoldsToolResult(i)})

\* C21 witness: a user message with two tool_result blocks, a user message
\* with a list without tool_result, and an assistant with two tool_use blocks
\* give a count of three.
C21_Witness ==
  /\ StatsReturned
  /\ NMsgs = 3
  /\ stats.value.toolUsageCount = 3
  /\ \E i \in MessageIndexes :
       /\ HoldsToolResult(i)
       /\ Len(messages[i].props.message.content.blocks) = 3
  /\ \E i \in MessageIndexes :
       /\ IsUser(messages[i])
       /\ ~HoldsToolResult(i)
       /\ messages[i].props.message.content.isArray
  /\ \E i \in AssistantIndexes : ToolUseBlocks(i) = 2

\* The numeric property key of message i, 0 when it is absent
FigureOf(i, key) ==
  IF key \in DOMAIN messages[i].props THEN messages[i].props[key] ELSE 0

\* The usage sub-field key of message i, 0 when usage or the field is absent
TokensOf(i, key) ==
  IF "usage" \notin DOMAIN messages[i].props.message THEN 0
  ELSE IF key \notin DOMAIN messages[i].props.message.usage THEN 0
  ELSE messages[i].props.message.usage[key]

AssistantSum(f(_)) == SumOver([i \in AssistantIndexes |-> f(i)], AssistantIndexes)

\* C22: averageResponseTimeMs is 0 without assistant message, and else the
\* sum of the assistant messages' durationMs (absent: 0) divided by the
\* number of all assistant messages; user messages do not enter.
C22_MeanOverAllAssistants ==
  (StatsReturned /\ NMsgs > 0) =>
    LET mean == stats.value.averageResponseTimeMs
        duration(i) == FigureOf(i, "durationMs")
    IN IF AssistantIndexes = {} THEN mean.num = 0
       ELSE /\ mean.den > 0
            /\ mean.num * Cardinality(AssistantIndexes)
                 = mean.den * AssistantSum(duration)

\* C22 witness: an assistant with durationMs 1000, one without durationMs
\* and a user message that carries a durationMs: the mean is 500.
C22_Witness ==
  /\ StatsReturned
  /\ NMsgs = 3
  /\ \E i, j \in AssistantIndexes :
       /\ FigureOf(i, "durationMs") = 1000
       /\ "durationMs" \notin DOMAIN messages[j].props
  /\ \E i \in MessageIndexes :
       IsUser(messages[i]) /\ FigureOf(i, "durationMs") = 900
  /\ stats.value.averageResponseTimeMs = [num |-> 500, den |-> 1]

\* C23: totalCostUSD and the four token totals are sums over the assistant
\* messages, an absent costUSD, usage or usage sub-field counting 0; the
\* three counts are those of all, of the user and of the assistant messages.
C23_TotalsOverAssistants ==
  (StatsReturned /\ NMsgs > 0) =>
    LET cost(i) == FigureOf(i, "costUSD")
        input(i) == TokensOf(i, "input_tokens")
        output(i) == TokensOf(i, "output_tokens")
        cacheCreation(i) == TokensOf(i, "cache_creation_input_tokens")
        cacheRead(i) == TokensOf(i, "cache_read_input_tokens")
    IN /\ stats.value.totalCostUSD = AssistantSum(cost)
       /\ stats.value.totalTokens.input = AssistantSum(input)
       /\ stats.value.totalTokens.output = AssistantSum(output)
       /\ stats.value.totalTokens.cacheCreation = AssistantSum(cacheCreation)
       /\ stats.value.totalTokens.cacheRead = AssistantSum(cacheRead)
       /\ stats.value.messageCount = NMsgs
       /\ stats.value.userMessageCount
            = Cardinality({i \in MessageIndexes : IsUser(messages[i])})
       /\ stats.value.assistantMessageCount = Cardinality(AssistantIndexes)

\* C23 witness: an assistant without costUSD and usage, an assistant whose
\* usage lacks the cache fields, and a user message with a cost and a usage.
C23_Witness ==
  /\ StatsReturned
  /\ NMsgs = 3
  /\ \E i \in AssistantIndexes :
       /\ "costUSD" \notin DOMAIN messages[i].props
       /\ "usage" \notin DOMAIN messages[i].props.message
  /\ \E i \in AssistantIndexes :
       /\ "usage" \in DOMAIN messages[i].props.message
       /\ "cache_read_input_tokens" \notin DOMAIN messages[i].props.message.usage
  /\ \E i \in MessageIndexes :
       /\ IsUser(messages[i])
       /\ FigureOf(i, "costUSD") = 7
       /\ TokensOf(i, "input_tokens") = 100
  /\ stats.value.totalCostUSD = 5
  /\ stats.value.totalTokens
       = [input |-> 10, output |-> 20, cacheCreation |-> 0, cacheRead |-> 0]
  /\ stats.value.userMessageCount = 1
  /\ stats.value.assistantMessageCount = 2

\* ------------------------------------------------------------- the duration
\* Messages i has a timestamp that is a date
HasDate(i) == ~DateGetTime(messages[i]).nan
\* Milliseconds of the timestamp of message i, when it is a date
Millis(i) == DateGetTime(messages[i]).v

\* The permutations of the messages list
MessagePermutations ==
  {[k \in MessageIndexes |-> messages[p[k]]] :
     p \in {q \in [MessageIndexes -> MessageIndexes] :
              \A a, b \in MessageIndexes : q[a] = q[b] => a = b}}

\* C24: conversationDurationMs is the largest minus the smallest timestamp of
\* all messages, never negative, 0 for one message, and the same for every
\* permutation of the messages.
C24_DurationIsMaxMinusMin ==
  (StatsReturned /\ NMsgs > 0) =>
    LET d == stats.value.conversationDurationMs IN
    /\ ~d.nan
    /\ d.inf = 0
    /\ d.v >= 0
    /\ NMsgs = 1 => d.v = 0
    /\ (\A i \in MessageIndexes : HasDate(i)) =>
         \E hi, lo \in MessageIndexes :
           /\ \A i \in MessageIndexes : Millis(lo) <= Millis(i) /\ Millis(i) <= Millis(hi)
           /\ d.v = Millis(hi) - Millis(lo)
    /\ \A p \in MessagePermutations : conversationDurationMs(p) = d

\* The statement of C24 for conversations in which every message has a
\* timestamp that is a date: there it holds.
C24_DatedDurationIsMaxMinusMin ==
  (\A i \in MessageIndexes : HasDate(i)) => C24_DurationIsMaxMinusMin

\* --------------------------------------------------------------- the stream
\* C25: the stream of a call is opened and eventually closed, when the file
\* is read to its end, when decoding fails on a malformed line, and when a
\* caller of readConversationLines stops iterating before the end.
C25_StreamEventuallyClosed == <>(stream = "closed")

\* The part of C25 that holds: a call that reads its file to the end has its
\* stream closed.
C25_ReadToEndCloses ==
  (pc \in {"done", "parsed"} /\ lineNumber = Len(lines) /\ thrown = NoError
     /\ (lineNumber > 0 => lines[lineNumber].text # "malformed"))
    => stream = "closed"

\* ------------------------------------------------------- cycles (C26, C27)
\* The messages whose parentUuid is the uuid of message i
ChildIndexes(i) ==
  {j \in 1..NMsgs : parentUuid(messages[j]) = uuid(messages[i])}

\* The set S with the messages reached from it by at most n child links
RECURSIVE BelowWithin(_, _)
BelowWithin(S, n) ==
  IF n = 0 THEN S
  ELSE BelowWithin(S \cup UNION {ChildIndexes(i) : i \in S}, n - 1)

\* Message i is reached from itself by one or more child links: it lies on
\* a cycle of parentUuid links.
OnParentCycle(i) == i \in BelowWithin(ChildIndexes(i), NMsgs)
HasParentCycle == \E i \in 1..NMsgs : OnParentCycle(i)

\* C26 as stated: buildConversationTree does not terminate when the input
\* contains a cyclic parentUuid chain.
C26_CycleRecursesWithoutBound ==
  (tree # NotCalled /\ HasParentCycle) => tree = RangeError

\* C26 amended: buildConversationTree recurses without bound exactly when a
\* message on a cycle of parentUuid links is reached from a message with null
\* parentUuid; with unique uuids no cycle is reached and the call returns,
\* the messages of the cycle being in no tree.
C26_RecursesIffCycleUnderRoot ==
  tree # NotCalled =>
    /\ tree = RangeError <=> \E i \in Rooted : OnParentCycle(i)
    /\ UniqueUuids => tree.status = "returned"
    /\ (UniqueUuids /\ HasParentCycle) =>
         \A i \in 1..NMsgs :
           OnParentCycle(i) => Holders(tree.value, i) = 0

\* C26 witness: a cycle under a root, and the recursion without bound.
C26_Witness ==
  /\ tree = RangeError
  /\ \E i \in Rooted : OnParentCycle(i)

\* The message that messageMap.get(u) returns: the last one with uuid u
LastWithUuid(u) ==
  CHOOSE i \in 1..NMsgs :
    uuid(messages[i]) = u /\ \A j \in (i + 1)..NMsgs : uuid(messages[j]) # u

\* The message that the parentUuid link of message i leads to, if there is one
HasParentMessage(i) ==
  /\ parentUuid(messages[i]) # Null
  /\ \E j \in 1..NMsgs : uuid(messages[j]) = parentUuid(messages[i])
ParentMessage(i) == LastWithUuid(parentUuid(messages[i]))

\* The messages reached from the set S by at most n parentUuid links
RECURSIVE AboveWithin(_, _)
AboveWithin(S, n) ==
  IF n = 0 THEN S
  ELSE AboveWithin(S \cup {ParentMessage(i) : i \in {j \in S : HasParentMessage(j)}},
                   n - 1)

\* The first summary names a message: there is a chain to trace.
HasLeafMessage ==
  /\ Len(summaries) > 0
  /\ \E i \in 1..NMsgs : uuid(messages[i]) = leafUuid(summaries[1])

\* The chain of parentUuid links that starts at the leaf message
LeafChain == AboveWithin({LastWithUuid(leafUuid(summaries[1]))}, NMsgs)

\* A message of the chain is reached again from its own parent link.
LeafChainHasCycle ==
  /\ HasLeafMessage
  /\ \E i \in LeafChain :
       HasParentMessage(i) /\ i \in AboveWithin({ParentMessage(i)}, NMsgs)

\* C27: getActiveBranch terminates exactly when the chain of parentUuid links
\* from the first summary's leaf message has no cycle; a result holds no
\* message twice and at most messages.length messages.
C27_TerminatesIffNoCycle ==
  branch # NotCalled =>
    /\ branch = Diverges <=> LeafChainHasCycle
    /\ branch.status = "returned" <=> ~LeafChainHasCycle
    /\ branch.status = "returned" =>
         /\ Len(branch.value) <= NMsgs
         /\ \A a, b \in 1..Len(branch.value) :
              branch.value[a] = branch.value[b] => a = b

\* C27 witness: the leaf's parent names the leaf as its parent, and the call
\* does not terminate.
C27_Witness ==
  /\ branch = Diverges
  /\ HasLeafMessage
  /\ LET leaf == LastWithUuid(leafUuid(summaries[1])) IN
       /\ HasParentMessage(leaf)
       /\ ParentMessage(leaf) # leaf
       /\ HasParentMessage(ParentMessage(leaf))
       /\ ParentMessage(ParentMessage(leaf)) = leaf

\* ------------------------------------------- the order of validation errors
\* C28: in the parseErrors of parseAndValidateConversation no validation
\* error stands before an error of parsing, no orphan error before a
\* duplicate error, the errors of each of the two groups follow the order of
\* their messages, and the error for the message at 0-based index i carries
\* line i + summaries.length + 1.
C28_ValidationErrorsInOrder ==
  pc = "validated" =>
    /\ \A p, q \in DOMAIN parseErrors :
         p < q =>
           /\ IsValidationError(parseErrors[p]) => IsValidationError(parseErrors[q])
           /\ IsOrphanError(parseErrors[p]) => ~IsDuplicateError(parseErrors[q])
           /\ (IsDuplicateError(parseErrors[p]) /\ IsDuplicateError(parseErrors[q]))
                => parseErrors[p].line < parseErrors[q].line
           /\ (IsOrphanError(parseErrors[p]) /\ IsOrphanError(parseErrors[q]))
                => parseErrors[p].line < parseErrors[q].line
    /\ \A p \in DOMAIN parseErrors :
         LET i == parseErrors[p].line - Len(summaries) - 1 IN
         /\ IsDuplicateError(parseErrors[p]) =>
              /\ i \in 0..(NMsgs - 1)
              /\ uuid(messages[i + 1]) = parseErrors[p].error[2]
              /\ IsLaterOccurrence(i + 1)
         /\ IsOrphanError(parseErrors[p]) =>
              /\ i \in 0..(NMsgs - 1)
              /\ parentUuid(messages[i + 1]) = parseErrors[p].error[2]

\* C28 witness: a summary, an error of parsing, two duplicate errors and two
\* orphan errors.
C28_Witness ==
  /\ pc = "validated"
  /\ Len(summaries) = 1
  /\ Len(parseErrors) > 4
  /\ ~IsValidationError(parseErrors[1])
  /\ Len(SelectSeq(parseErrors, IsDuplicateError)) = 2
  /\ Len(SelectSeq(parseErrors, IsOrphanError)) = 2

\* ------------------------------------------------ branch and forest (C29)
\* path starts at the message of a node of the list nodes, and each next
\* element is the message of a child of the node before.
RECURSIVE IsPathFrom(_, _)
IsPathFrom(nodes, path) ==
  \E k \in 1..Len(nodes) :
    /\ nodes[k].message = path[1]
    /\ Len(path) = 1 \/ IsPathFrom(nodes[k].children, Tail(path))

BranchFromARoot ==
  /\ branch.status = "returned"
  /\ Len(branch.value) > 0
  /\ parentUuid(messages[branch.value[1]]) = Null

\* C29 as stated: with unique uuids every list that getActiveBranch returns
\* and that starts at a null-parent message is a root-to-node path of the
\* forest of buildConversationTree.
C29_BranchIsAForestPath ==
  (tree # NotCalled /\ UniqueUuids /\ BranchFromARoot) =>
    /\ tree.status = "returned"
    /\ IsPathFrom(tree.value, branch.value)

\* C29 amended: the same for a branch that was traced, the first summary's
\* leafUuid being the uuid of a message.
C29_TracedBranchIsAForestPath ==
  (tree # NotCalled /\ UniqueUuids /\ BranchFromARoot /\ HasLeafMessage) =>
    /\ tree.status = "returned"
    /\ IsPathFrom(tree.value, branch.value)

\* C29 witness: a traced branch of two messages that ends at the second
\* child of its root.
C29_Witness ==
  /\ tree.status = "returned"
  /\ UniqueUuids
  /\ BranchFromARoot
  /\ HasLeafMessage
  /\ Len(branch.value) = 2
  /\ \E j \in 1..NMsgs :
       /\ j < branch.value[2]
       /\ parentUuid(messages[j]) = uuid(messages[branch.value[1]])

\* ------------------------------------------------- repeated uuids (C30)
\* C30: where several messages share a uuid, getActiveBranch takes the last
\* of them in file order for the leaf and for every parent; an earlier
\* message with that uuid is in no traced branch.
C30_LastMessageOfAUuidWins ==
  (branch.status = "returned" /\ HasLeafMessage) =>
    LET path == branch.value IN
    /\ Len(path) > 0
    /\ path[Len(path)] = LastWithUuid(leafUuid(summaries[1]))
    /\ \A k \in 2..Len(path) :
         /\ HasParentMessage(path[k])
         /\ path[k - 1] = ParentMessage(path[k])
    /\ \A k \in 1..Len(path), j \in 1..NMsgs :
         (j < path[k] /\ uuid(messages[j]) = uuid(messages[path[k]])) =>
           \A m \in 1..Len(path) : path[m] # j

\* C30 witness: a traced branch of two messages whose first, the parent, is
\* the later of two messages with one uuid.
C30_Witness ==
  /\ branch.status = "returned"
  /\ HasLeafMessage
  /\ Len(branch.value) = 2
  /\ \E j \in 1..NMsgs :
       /\ j < branch.value[1]
       /\ uuid(messages[j]) = uuid(messages[branch.value[1]])

====
